---- MODULE Spec2Model ----
(***************************************************************************)
(* Model of DancingLights.py: the GamePlay window object and its per-frame *)
(* handler on_update, which rotates, translates and grows a wheel of one   *)
(* center light and six satellite lights and pulsates the lights' radii.   *)
(*                                                                         *)
(* Number representation.  The program computes radii in Python floats     *)
(* with steps 0.5, 0.1 and the factor 0.4; the model keeps every length in *)
(* units of 1/10 pixel, so 0.1 is 1, 0.5 is 5, 60 is 600, 800 is 8000 and  *)
(* 0.4 * w is (4 * w) \div 10, which is exact because w is a multiple of 5 *)
(* while that branch runs.  Angles are in units of 1/10000 radian, so      *)
(* 0.01 is 100 and 2*pi is 62832.  A light's position                      *)
(* (rad*cos(ang) + cx, rad*sin(ang) + cy) is kept as the record of its     *)
(* four operands [cx, cy, rad, ang].                                       *)
(***************************************************************************)
EXTENDS Integers, Sequences, FiniteSets, TLC

\* Number of on_update calls explored.
MaxTicks == 1200
\* delta_time values (milliseconds) range over 1000/FPS .. 1000/FPS + MaxJitter.
MaxJitter == 1

SCREEN_WIDTH == 8000
SCREEN_HEIGHT == 5600
FPS == 30
\* 2 * math.pi in units of 1/10000 radian
TwoPi == 62832

DeltaTimes == (1000 \div FPS)..((1000 \div FPS) + MaxJitter)

VARIABLES
    gp,          \* the GamePlay object: its fields
    ticks,       \* number of on_update calls made so far
    delta_time   \* the argument of the latest on_update call (0: none yet)

vars == <<gp, ticks, delta_time>>

\* "None" value of self.lightLayer before setup: the empty function.
NoLayer == <<>>

\* F applied to v, the statement F run on the state v.  It is written through
\* a singleton set so that v is evaluated once, before F runs.
Then(v, F(_)) == CHOOSE r \in {F(x) : x \in {v}} : TRUE

\* The point (rad*cos(ang) + cx, rad*sin(ang) + cy).
Position(cx, cy, rad, ang) == [cx |-> cx, cy |-> cy, rad |-> rad, ang |-> ang]

\* math.sin and math.cos are computed in fixed point: the result is scaled by
\* CosScale, the angle is reduced modulo 2*pi and truncated to 1/100 radian,
\* and the half wave is Bhaskara's rational approximation
\* 16 x (pi - x) / (5 pi^2 - 4 x (pi - x)); the result is within 0.01 of
\* math.sin and, like it, never exceeds 1 in absolute value.
CosScale == 1000

HalfWave(x) ==
    LET P == (TwoPi \div 2) \div 100
        c == x \div 100
        p == c * (P - c)
    IN  (16 * p * CosScale) \div (5 * P * P - 4 * p)

Sin(a) ==
    LET m == a % TwoPi
    IN  IF m <= TwoPi \div 2 THEN HalfWave(m) ELSE -HalfWave(m - TwoPi \div 2)

Cos(a) == Sin(a + TwoPi \div 4)

\* The coordinates of the point p = Position(cx, cy, rad, ang).
PointX(p) == p.cx + (p.rad * Cos(p.ang)) \div CosScale
PointY(p) == p.cy + (p.rad * Sin(p.ang)) \div CosScale

\* arcade.experimental.lights.Light(x, y, radius, color, mode)
Light(x, y, radius, color, mode) ==
    [position |-> Position(x, y, 0, 0), radius |-> radius,
     color |-> color, mode |-> mode]

\* GamePlay.__init__
GamePlayInit ==
    [lightLayer   |-> NoLayer,
     lightColors  |-> <<"WHITE", "RED", "GREEN", "BLUE", "RED", "GREEN", "BLUE">>,
     lightRadMin  |-> 600,
     lightRadMax  |-> 1200,
     lightRad     |-> 600,
     wheelRadMin  |-> 0,
     wheelRadMax  |-> 1200,
     wheelRad     |-> 0,
     wheelCenterX |-> SCREEN_WIDTH \div 2,
     wheelCenterY |-> SCREEN_HEIGHT \div 2,
     tiltAngle    |-> 0,
     dRadWheel    |-> 5,
     dRadLights   |-> 1,
     dx           |-> 10,
     dy           |-> 10,
     dtilt        |-> 100]

\* GamePlay.setup: one light per color, all at the wheel center with radius
\* lightRadMin; the first is soft, the others hard.
SetupLights(s) ==
    [s EXCEPT !.lightLayer =
        [i \in 0..(Len(s.lightColors) - 1) |->
            Light(s.wheelCenterX, s.wheelCenterY, s.lightRadMin,
                  s.lightColors[i + 1],
                  IF s.lightColors[i + 1] = s.lightColors[1]
                  THEN "soft" ELSE "hard")]]

\* Rotate without the reduction modulo 2*pi
Rotate_NoWrap(s) ==
    [s EXCEPT !.tiltAngle = s.tiltAngle + s.dtilt]

\* on_update, lines 127-130
Rotate(s) ==
    [s EXCEPT !.tiltAngle = (s.tiltAngle + s.dtilt) % TwoPi]

\* MoveX that flips dx at the right edge but forgets to clamp wcX
MoveX_NoClampHigh(s) ==
    LET wcX == s.wheelCenterX + s.dx
        hi  == wcX > SCREEN_WIDTH - s.wheelRadMax
        d1  == IF hi THEN -s.dx ELSE s.dx
        lo  == wcX < s.wheelRadMax
        d2  == IF lo THEN -d1 ELSE d1
        w2  == IF lo THEN s.wheelRadMax ELSE wcX
    IN  [s EXCEPT !.dx = d2, !.wheelCenterX = w2]

\* MoveX that keeps the center lightRadMin, not wheelRadMax, from the edges
MoveX_LightMargin(s) ==
    LET wcX == s.wheelCenterX + s.dx
        hi  == wcX > SCREEN_WIDTH - s.lightRadMin
        d1  == IF hi THEN -s.dx ELSE s.dx
        w1  == IF hi THEN SCREEN_WIDTH - s.lightRadMin ELSE wcX
        lo  == w1 < s.lightRadMin
        d2  == IF lo THEN -d1 ELSE d1
        w2  == IF lo THEN s.lightRadMin ELSE w1
    IN  [s EXCEPT !.dx = d2, !.wheelCenterX = w2]

\* on_update, lines 132-142
MoveX(s) ==
    LET wcX == s.wheelCenterX + s.dx
        hi  == wcX > SCREEN_WIDTH - s.wheelRadMax
        d1  == IF hi THEN -s.dx ELSE s.dx
        w1  == IF hi THEN SCREEN_WIDTH - s.wheelRadMax ELSE wcX
        lo  == w1 < s.wheelRadMax
        d2  == IF lo THEN -d1 ELSE d1
        w2  == IF lo THEN s.wheelRadMax ELSE w1
    IN  [s EXCEPT !.dx = d2, !.wheelCenterX = w2]

\* MoveY that bounces as soon as wcY touches an edge (>= and <= for > and <)
MoveY_FlipOnTouch(s) ==
    LET wcY == s.wheelCenterY + s.dy
        hi  == wcY >= SCREEN_HEIGHT - s.wheelRadMax
        d1  == IF hi THEN -s.dy ELSE s.dy
        w1  == IF hi THEN SCREEN_HEIGHT - s.wheelRadMax ELSE wcY
        lo  == w1 <= s.wheelRadMax
        d2  == IF lo THEN -d1 ELSE d1
        w2  == IF lo THEN s.wheelRadMax ELSE w1
    IN  [s EXCEPT !.dy = d2, !.wheelCenterY = w2]

\* on_update, lines 144-154
MoveY(s) ==
    LET wcY == s.wheelCenterY + s.dy
        hi  == wcY > SCREEN_HEIGHT - s.wheelRadMax
        d1  == IF hi THEN -s.dy ELSE s.dy
        w1  == IF hi THEN SCREEN_HEIGHT - s.wheelRadMax ELSE wcY
        lo  == w1 < s.wheelRadMax
        d2  == IF lo THEN -d1 ELSE d1
        w2  == IF lo THEN s.wheelRadMax ELSE w1
    IN  [s EXCEPT !.dy = d2, !.wheelCenterY = w2]

\* GrowWheel without the clamp to wheelRadMax
GrowWheel_NoClamp(s) ==
    [s EXCEPT !.wheelRad = s.wheelRad + s.dRadWheel]

\* GrowWheel that sets dRadWheel to 0 when it clamps
GrowWheel_ZeroStep(s) ==
    LET r == s.wheelRad + s.dRadWheel
    IN  IF r > s.wheelRadMax
        THEN [s EXCEPT !.wheelRad = s.wheelRadMax, !.dRadWheel = 0]
        ELSE [s EXCEPT !.wheelRad = r]

\* on_update, lines 156-161
GrowWheel(s) ==
    LET r == s.wheelRad + s.dRadWheel
    IN  [s EXCEPT !.wheelRad = IF r > s.wheelRadMax THEN s.wheelRadMax ELSE r]

\* on_update, lines 163-166
PlaceCenter(s) ==
    [s EXCEPT !.lightLayer[0].position =
        Position(s.wheelCenterX, s.wheelCenterY, 0, 0)]

\* ExpansionRadius with the factor 0.5 in place of 0.4
ExpansionRadius_Half(w) == (5 * w) \div 10

\* on_update, line 193: r = 0.4 * self.wheelRad
ExpansionRadius(w) == (4 * w) \div 10

\* RadiusPolicy without the clamp at lightRadMin
RadiusPolicy_NoLowClamp(s, n) ==
    IF s.wheelRad < s.wheelRadMax
    THEN LET r == ExpansionRadius(s.wheelRad)
         IN  [s EXCEPT !.lightLayer[0].radius = r,
                       !.lightLayer[n].radius = r]
    ELSE LET r0 == s.lightLayer[0].radius + s.dRadLights
             hi == r0 > s.lightRadMax
             d1 == IF hi THEN -s.dRadLights ELSE s.dRadLights
             r1 == IF hi THEN s.lightRadMax ELSE r0
         IN  [s EXCEPT !.dRadLights = d1,
                       !.lightLayer[0].radius = r1,
                       !.lightLayer[n].radius = r1]

\* RadiusPolicy that clamps at lightRadMax but forgets to negate dRadLights
RadiusPolicy_NoFlipHigh(s, n) ==
    IF s.wheelRad < s.wheelRadMax
    THEN LET r == ExpansionRadius(s.wheelRad)
         IN  [s EXCEPT !.lightLayer[0].radius = r,
                       !.lightLayer[n].radius = r]
    ELSE LET r0 == s.lightLayer[0].radius + s.dRadLights
             hi == r0 > s.lightRadMax
             r1 == IF hi THEN s.lightRadMax ELSE r0
             lo == r1 < s.lightRadMin
             d2 == IF lo THEN -s.dRadLights ELSE s.dRadLights
             r2 == IF lo THEN s.lightRadMin ELSE r1
         IN  [s EXCEPT !.dRadLights = d2,
                       !.lightLayer[0].radius = r2,
                       !.lightLayer[n].radius = r2]

\* RadiusPolicy that still takes the expansion branch at wheelRad = wheelRadMax
RadiusPolicy_ExpandAtMax(s, n) ==
    IF s.wheelRad <= s.wheelRadMax
    THEN LET r == ExpansionRadius(s.wheelRad)
         IN  [s EXCEPT !.lightLayer[0].radius = r,
                       !.lightLayer[n].radius = r]
    ELSE s

\* RadiusPolicy that also stores the new radius in self.lightRad
RadiusPolicy_StoresLightRad(s, n) ==
    IF s.wheelRad < s.wheelRadMax
    THEN LET r == ExpansionRadius(s.wheelRad)
         IN  [s EXCEPT !.lightRad = r,
                       !.lightLayer[0].radius = r,
                       !.lightLayer[n].radius = r]
    ELSE LET r0 == s.lightLayer[0].radius + s.dRadLights
             hi == r0 > s.lightRadMax
             d1 == IF hi THEN -s.dRadLights ELSE s.dRadLights
             r1 == IF hi THEN s.lightRadMax ELSE r0
             lo == r1 < s.lightRadMin
             d2 == IF lo THEN -d1 ELSE d1
             r2 == IF lo THEN s.lightRadMin ELSE r1
         IN  [s EXCEPT !.dRadLights = d2,
                       !.lightRad = r2,
                       !.lightLayer[0].radius = r2,
                       !.lightLayer[n].radius = r2]

\* on_update, lines 192-207: the radius branch run inside the loop for light n
RadiusPolicy(s, n) ==
    IF s.wheelRad < s.wheelRadMax
    THEN LET r == ExpansionRadius(s.wheelRad)
         IN  [s EXCEPT !.lightLayer[0].radius = r,
                       !.lightLayer[n].radius = r]
    ELSE LET r0 == s.lightLayer[0].radius + s.dRadLights
             hi == r0 > s.lightRadMax
             d1 == IF hi THEN -s.dRadLights ELSE s.dRadLights
             r1 == IF hi THEN s.lightRadMax ELSE r0
             lo == r1 < s.lightRadMin
             d2 == IF lo THEN -d1 ELSE d1
             r2 == IF lo THEN s.lightRadMin ELSE r1
         IN  [s EXCEPT !.dRadLights = d2,
                       !.lightLayer[0].radius = r2,
                       !.lightLayer[n].radius = r2]

\* on_update, lines 178-185: satellite n is placed at angle ta = a + tiltAngle
PlaceSatellite(s, n, a) ==
    [s EXCEPT !.lightLayer[n].position =
        Position(s.wheelCenterX, s.wheelCenterY, s.wheelRad, a + s.tiltAngle)]

\* StepAngle dividing by the number of colors instead of the number of satellites
StepAngle_AllColors(nc) == TwoPi \div (nc + 1)

\* on_update, line 173: stepAngle = 2 * math.pi / nc
StepAngle(nc) == TwoPi \div nc

\* on_update, lines 177-209: for n in range(1, nc + 1, 1), a = a + stepAngle
RECURSIVE SatelliteLoop(_, _, _, _)
SatelliteLoop(s, n, nc, a) ==
    IF n > nc
    THEN s
    ELSE LET Body(x) == RadiusPolicy(PlaceSatellite(x, n, a), n)
             Rest(x) == SatelliteLoop(x, n + 1, nc, a + StepAngle(nc))
         IN  Then(Then(s, Body), Rest)

\* on_update whose rotation step is scaled by the elapsed time
on_update_TimeScaled(s, dt) ==
    LET Turn(x)  == [x EXCEPT !.tiltAngle =
                       (x.tiltAngle + (x.dtilt * dt * FPS) \div 1000) % TwoPi]
        Place(x) == SatelliteLoop(x, 1, Len(x.lightColors) - 1, 0)
    IN  Then(Then(Then(Then(Then(Then(s,
            Turn), MoveX), MoveY), GrowWheel), PlaceCenter), Place)

\* on_update that places the center light before the center is moved
on_update_PlaceFirst(s, dt) ==
    LET Place(x) == SatelliteLoop(x, 1, Len(x.lightColors) - 1, 0)
    IN  Then(Then(Then(Then(Then(Then(s,
            PlaceCenter), Rotate), MoveX), MoveY), GrowWheel), Place)

\* GamePlay.on_update(self, delta_time): the whole handler
on_update(s, dt) ==
    LET Place(x) == SatelliteLoop(x, 1, Len(x.lightColors) - 1, 0)
    IN  Then(Then(Then(Then(Then(Then(s,
            Rotate), MoveX), MoveY), GrowWheel), PlaceCenter), Place)

Init ==
    /\ gp = GamePlayInit
    /\ ticks = 0
    /\ delta_time = 0

\* gp.setup(), called once before arcade.run()
Setup ==
    /\ gp.lightLayer = NoLayer
    /\ gp' = SetupLights(gp)
    /\ UNCHANGED <<ticks, delta_time>>

\* one frame: arcade calls gp.on_update(delta_time)
OnUpdate ==
    /\ gp.lightLayer # NoLayer
    /\ ticks < MaxTicks
    /\ \E dt \in DeltaTimes :
          /\ gp' = on_update(gp, dt)
          /\ delta_time' = dt
    /\ ticks' = ticks + 1

Next == Setup \/ OnUpdate

Spec == Init /\ [][Next]_vars

\* arcade.run() keeps scheduling on_update at update_rate = 1/FPS
LiveSpec == Spec /\ WF_vars(OnUpdate)

Lights == 0..(Len(gp.lightColors) - 1)
Satellites == 1..(Len(gp.lightColors) - 1)
Ticked == ticks >= 1

(***************************************************************************)
(* C1..C4                                                                  *)
(***************************************************************************)

\* C1: in every reachable state the wheel center satisfies
\* wheelRadMax <= wheelCenterX <= SCREEN_WIDTH - wheelRadMax and
\* wheelRadMax <= wheelCenterY <= SCREEN_HEIGHT - wheelRadMax, that is
\* centerX in [120, 680] and centerY in [120, 440] (here in tenths).
C1_CenterInBounds ==
    /\ gp.wheelRadMax <= gp.wheelCenterX
    /\ gp.wheelCenterX <= SCREEN_WIDTH - gp.wheelRadMax
    /\ gp.wheelRadMax <= gp.wheelCenterY
    /\ gp.wheelCenterY <= SCREEN_HEIGHT - gp.wheelRadMax
    /\ gp.wheelCenterX \in 1200..6800
    /\ gp.wheelCenterY \in 1200..4400

\* the center has just bounced off the right edge
C1_Witness ==
    /\ Ticked
    /\ gp.wheelCenterX = SCREEN_WIDTH - gp.wheelRadMax
    /\ gp.dx < 0

\* C2: wheelRad never decreases from one tick to the next, it equals
\* wheelRadMax after tick 240 for the first time, and after every later tick.
C2_WheelGrowth ==
    /\ [][gp'.wheelRad >= gp.wheelRad]_vars
    /\ [](ticks < 240 => gp.wheelRad < gp.wheelRadMax)
    /\ [](ticks >= 240 => gp.wheelRad = gp.wheelRadMax)

\* a tick after the wheel reached its maximum, radius still pinned
C2_Witness ==
    /\ ticks > 240
    /\ gp.wheelRad = gp.wheelRadMax

\* C3: after every tick that ends with wheelRad = wheelRadMax, the radius
\* of the center light and of every satellite lies in
\* [lightRadMin, lightRadMax] = [60, 120].
C3_RadiiInBounds ==
    (Ticked /\ gp.wheelRad = gp.wheelRadMax) =>
        \A i \in Lights :
            /\ gp.lightRadMin <= gp.lightLayer[i].radius
            /\ gp.lightLayer[i].radius <= gp.lightRadMax
            /\ gp.lightLayer[i].radius \in 600..1200

\* the very first tick that ends with the wheel fully expanded
C3_Witness ==
    /\ ticks = 240
    /\ gp.wheelRad = gp.wheelRadMax
    /\ gp.lightLayer[1].radius = gp.lightRadMin

\* C4: after every tick that ends with wheelRad < wheelRadMax, the radius
\* of the center light and of each of the six satellites is exactly
\* 0.4 times the post-tick wheelRad.
C4_ExpansionTracksWheel ==
    (Ticked /\ gp.wheelRad < gp.wheelRadMax) =>
        /\ Cardinality(Satellites) = 6
        /\ \A i \in Lights : 10 * gp.lightLayer[i].radius = 4 * gp.wheelRad

\* the last tick of the expansion phase: wheelRad = 119.5, radius 47.8
C4_Witness ==
    /\ Ticked
    /\ gp.wheelRad = gp.wheelRadMax - gp.dRadWheel
    /\ gp.lightLayer[0].radius = 478

(***************************************************************************)
(* C5..C10                                                                 *)
(***************************************************************************)

\* the wheel is fully expanded (pulsation phase)
Expanded == Ticked /\ gp.wheelRad = gp.wheelRadMax

\* C5: after every on_update tick, in the expansion and in the pulsation
\* phase, the center light and all six satellites have one and the same
\* radius.
C5_SharedRadius ==
    Ticked => \A i, j \in Lights :
                  gp.lightLayer[i].radius = gp.lightLayer[j].radius

\* C6: once the wheel is fully expanded, one tick changes the light radius
\* by exactly one step dRadLights: the new radius is the old radius plus
\* dRadLights, except when that sum leaves [lightRadMin, lightRadMax], and
\* then the radius is the crossed bound and dRadLights is negated once.
C6_OneStepPerTick ==
    [][(Expanded /\ ticks' # ticks) =>
          LET sum == gp.lightLayer[0].radius + gp.dRadLights
          IN  IF sum > gp.lightRadMax
              THEN /\ gp'.lightLayer[0].radius = gp.lightRadMax
                   /\ gp'.dRadLights = -gp.dRadLights
              ELSE IF sum < gp.lightRadMin
              THEN /\ gp'.lightLayer[0].radius = gp.lightRadMin
                   /\ gp'.dRadLights = -gp.dRadLights
              ELSE /\ gp'.lightLayer[0].radius = sum
                   /\ gp'.dRadLights = gp.dRadLights]_vars

\* some light sits at lightRadMax and the radii are now falling
AtMax ==
    /\ Expanded
    /\ gp.dRadLights < 0
    /\ \E i \in Lights : gp.lightLayer[i].radius = gp.lightRadMax

\* some light sits at lightRadMin and the radii are now rising
AtMin ==
    /\ Expanded
    /\ gp.dRadLights > 0
    /\ \E i \in Lights : gp.lightLayer[i].radius = gp.lightRadMin

\* ticks of one full fall and rise over [lightRadMin, lightRadMax]
PulseCycle ==
    2 * ((gp.lightRadMax - gp.lightRadMin) \div Cardinality(Satellites)) + 2

\* enough ticks are left to see a full cycle
CycleAhead == Expanded /\ ticks + PulseCycle <= MaxTicks

\* C7: after the wheel is fully expanded the pulsation never stops: the
\* radius rises while dRadLights is positive, dRadLights turns negative only
\* with a light at lightRadMax and positive only with a light at
\* lightRadMin, and from every expanded state each bound is reached again.
C7_PulsationNeverStops ==
    /\ [][(Expanded /\ ticks' # ticks /\ gp.dRadLights = gp'.dRadLights) =>
             IF gp.dRadLights > 0
             THEN gp'.lightLayer[0].radius > gp.lightLayer[0].radius
             ELSE gp'.lightLayer[0].radius < gp.lightLayer[0].radius]_vars
    /\ [][(Expanded /\ gp.dRadLights # gp'.dRadLights) =>
             IF gp'.dRadLights < 0 THEN AtMax' ELSE AtMin']_vars
    /\ CycleAhead ~> AtMax
    /\ CycleAhead ~> AtMin

\* back at lightRadMin after a first rise to lightRadMax
C7_Witness ==
    /\ Expanded
    /\ AtMin
    /\ ticks > 400

\* C8: after every tick 0 <= tiltAngle < 2*pi, and tiltAngle is the
\* previous tiltAngle plus dtilt reduced modulo 2*pi.
C8_AngleWrap ==
    /\ [](0 <= gp.tiltAngle /\ gp.tiltAngle < TwoPi)
    /\ [][ticks' # ticks =>
             \E k \in {0, 1} :
                 gp'.tiltAngle = gp.tiltAngle + gp.dtilt - k * TwoPi]_vars

\* the angle has just wrapped around
C8_Witness ==
    /\ Ticked
    /\ ticks * gp.dtilt >= TwoPi
    /\ gp.tiltAngle < gp.dtilt

\* C9: after every tick the N = 6 satellites are placed at the angles
\* tiltAngle + (n-1)*2*pi/N, n = 1..N, consecutive ones 2*pi/N apart, and
\* light 0 is never given a satellite angle.
C9_EqualSpacing ==
    Ticked =>
        LET N == Cardinality(Satellites)
        IN  /\ N = 6
            /\ \A n \in Satellites :
                  N * (gp.lightLayer[n].position.ang - gp.tiltAngle)
                      = (n - 1) * TwoPi
            /\ \A n \in Satellites \ {N} :
                  N * (gp.lightLayer[n + 1].position.ang
                       - gp.lightLayer[n].position.ang) = TwoPi
            /\ gp.lightLayer[0].position.rad = 0
            /\ gp.lightLayer[0].position.ang = 0

\* the wheel has turned so far that the last satellite's angle exceeds 2*pi
C9_Witness ==
    /\ Ticked
    /\ gp.tiltAngle > 0
    /\ gp.lightLayer[6].position.ang > TwoPi

\* C10: on_update is deterministic: the state after a tick is a function of
\* the state before it alone, the same for every delta_time passed in.
C10_Deterministic ==
    [][ticks' # ticks =>
          \A dt \in DeltaTimes : gp' = on_update(gp, dt)]_vars

\* ticks were made with a delta_time other than the nominal 1/FPS
C10_Witness ==
    /\ ticks >= 2
    /\ delta_time # 1000 \div FPS

(***************************************************************************)
(* C11..C17                                                                *)
(***************************************************************************)

\* The variant of the satellite loop that only places the satellites.
RECURSIVE PlaceLoop(_, _, _, _)
PlaceLoop(s, n, nc, a) ==
    IF n > nc
    THEN s
    ELSE LET Body(x) == PlaceSatellite(x, n, a)
             Rest(x) == PlaceLoop(x, n + 1, nc, a + StepAngle(nc))
         IN  Then(Then(s, Body), Rest)

\* The radius policy evaluated once, its result given to all lights.
HoistedRadius(s) ==
    LET one == RadiusPolicy(s, 0)
    IN  [one EXCEPT !.lightLayer =
            [i \in DOMAIN one.lightLayer |->
                [one.lightLayer[i] EXCEPT !.radius = one.lightLayer[0].radius]]]

\* The variant of on_update with the radius policy hoisted out of the loop.
on_update_Hoisted(s, dt) ==
    LET Place(x) == PlaceLoop(x, 1, Len(x.lightColors) - 1, 0)
    IN  Then(Then(Then(Then(Then(Then(Then(s,
            Rotate), MoveX), MoveY), GrowWheel), PlaceCenter), Place),
            HoistedRadius)

\* the radii of all lights of a GamePlay state
Radii(s) == [i \in DOMAIN s.lightLayer |-> s.lightLayer[i].radius]

\* C11: the in-loop radius policy is idempotent within a tick: the variant
\* of on_update that evaluates it once per tick outside the loop gives, tick
\* for tick, the same light radii and the same dRadLights, in the expansion
\* and in the pulsation phase.
C11_HoistedEquivalent ==
    [][ticks' # ticks =>
          /\ Radii(gp') = Radii(on_update_Hoisted(gp, delta_time'))
          /\ gp'.dRadLights = on_update_Hoisted(gp, delta_time').dRadLights]_vars

\* C12: bounce step for x and for y: a tick whose sum center + step exceeds
\* SCREEN - wheelRadMax (680, 440) negates the step once and puts the center
\* on that bound; one whose sum is below wheelRadMax (120) negates the step
\* once and puts the center on 120; every other tick leaves the step
\* unchanged and moves the center by exactly the step.  From centerX = 400,
\* dx = 1 the first flip is on the tick that would reach 681 (tick 281).
C12_BounceStep ==
    /\ [][ticks' # ticks =>
             LET wcX == gp.wheelCenterX + gp.dx
             IN  IF wcX > 6800
                 THEN gp'.dx = -gp.dx /\ gp'.wheelCenterX = 6800
                 ELSE IF wcX < 1200
                 THEN gp'.dx = -gp.dx /\ gp'.wheelCenterX = 1200
                 ELSE gp'.dx = gp.dx /\ gp'.wheelCenterX = wcX]_vars
    /\ [][ticks' # ticks =>
             LET wcY == gp.wheelCenterY + gp.dy
             IN  IF wcY > 4400
                 THEN gp'.dy = -gp.dy /\ gp'.wheelCenterY = 4400
                 ELSE IF wcY < 1200
                 THEN gp'.dy = -gp.dy /\ gp'.wheelCenterY = 1200
                 ELSE gp'.dy = gp.dy /\ gp'.wheelCenterY = wcY]_vars
    /\ [](ticks < 281 => gp.dx = 10 /\ gp.wheelCenterX = 4000 + 10 * ticks)
    /\ [](ticks = 281 => gp.dx = -10 /\ gp.wheelCenterX = 6800)

\* the center has bounced off the bottom edge after bouncing off the top
C12_Witness ==
    /\ Ticked
    /\ gp.wheelCenterY = gp.wheelRadMax
    /\ gp.dy > 0

\* C13: dRadWheel becomes 0 once the wheel is fully expanded: in every state
\* after wheelRad has reached wheelRadMax, dRadWheel equals 0.
C13_StepBecomesZero ==
    gp.wheelRad = gp.wheelRadMax => gp.dRadWheel = 0

\* C13 (amended): dRadWheel keeps its initial value 0.5 in every state; once
\* wheelRad has reached wheelRadMax it is the clamp that stops the growth,
\* so wheelRad changes by 0 per tick although dRadWheel is still 0.5.
C13_StepKeptGrowthStops ==
    /\ [](gp.dRadWheel = 5)
    /\ [][(ticks' # ticks /\ gp.wheelRad = gp.wheelRadMax) =>
             /\ gp'.wheelRad - gp.wheelRad = 0
             /\ gp'.dRadWheel = gp.dRadWheel]_vars

\* two ticks after the wheel reached its maximum, the step is still 0.5
C13_Witness ==
    /\ ticks >= 242
    /\ gp.wheelRad = gp.wheelRadMax
    /\ gp.dRadWheel = 5

\* the position of light i as a point of the window
LightX(i) == PointX(gp.lightLayer[i].position)
LightY(i) == PointY(gp.lightLayer[i].position)

\* C14: within a tick the steps run in the order rotation, x bounce,
\* y bounce, wheel growth, center placement, satellite placement, each
\* reading what the earlier ones wrote: after every tick the center light is
\* at the post-tick (wheelCenterX, wheelCenterY) and satellite n is at the
\* post-tick center plus post-tick wheelRad times (cos, sin) of the post-tick
\* tiltAngle + (n-1)*2*pi/N, never at a value of the previous tick.
C14_PostTickPlacement ==
    Ticked =>
        /\ gp.lightLayer[0].position.cx = gp.wheelCenterX
        /\ gp.lightLayer[0].position.cy = gp.wheelCenterY
        /\ LightX(0) = gp.wheelCenterX
        /\ LightY(0) = gp.wheelCenterY
        /\ \A n \in Satellites :
              LET ta == gp.tiltAngle
                          + ((n - 1) * TwoPi) \div Cardinality(Satellites)
              IN  /\ gp.lightLayer[n].position.cx = gp.wheelCenterX
                  /\ gp.lightLayer[n].position.cy = gp.wheelCenterY
                  /\ gp.lightLayer[n].position.rad = gp.wheelRad
                  /\ gp.lightLayer[n].position.ang = ta
                  /\ LightX(n) = gp.wheelCenterX
                                   + (gp.wheelRad * Cos(ta)) \div CosScale
                  /\ LightY(n) = gp.wheelCenterY
                                   + (gp.wheelRad * Sin(ta)) \div CosScale

\* a tick of the expansion phase: the wheel has moved, turned and grown, and
\* satellite 1 is off the center
C14_Witness ==
    /\ Ticked
    /\ gp.wheelRad \in 5..1195
    /\ gp.tiltAngle > 0
    /\ LightX(1) > gp.wheelCenterX
    /\ LightY(1) > gp.wheelCenterY

\* C15: in every reachable state the position of every light lies inside the
\* window [0, SCREEN_WIDTH] x [0, SCREEN_HEIGHT]: the center stays wheelRadMax
\* away from each edge and each light is at most wheelRad <= wheelRadMax
\* away from the center in each coordinate.
C15_LightsInsideWindow ==
    /\ gp.wheelRad <= gp.wheelRadMax
    /\ \A i \in DOMAIN gp.lightLayer :
          /\ 0 <= LightX(i) /\ LightX(i) <= SCREEN_WIDTH
          /\ 0 <= LightY(i) /\ LightY(i) <= SCREEN_HEIGHT
          /\ LightX(i) - gp.wheelCenterX \in (-gp.wheelRad)..gp.wheelRad
          /\ LightY(i) - gp.wheelCenterY \in (-gp.wheelRad)..gp.wheelRad

\* a satellite of the fully expanded wheel within 10 pixels of the right edge
C15_Witness ==
    /\ Expanded
    /\ \E n \in Satellites : LightX(n) > SCREEN_WIDTH - 100

\* C16: on the first tick that ends with wheelRad = wheelRadMax the radius
\* carried over from the expansion phase, 0.4 * (wheelRadMax - dRadWheel)
\* = 47.8 < lightRadMin, is raised to at least lightRadMin for every light
\* within that tick, and dRadLights, negated while clamping, is positive
\* again at the end of the tick; every tick that ends with
\* wheelRad < wheelRadMax leaves dRadLights unchanged.
C16_SwitchToPulsation ==
    /\ [][(ticks' # ticks /\ gp.wheelRad < gp.wheelRadMax
                          /\ gp'.wheelRad = gp'.wheelRadMax) =>
             /\ 10 * gp.lightLayer[0].radius
                    = 4 * (gp.wheelRadMax - gp.dRadWheel)
             /\ gp.lightLayer[0].radius = 478
             /\ gp.lightLayer[0].radius < gp.lightRadMin
             /\ \A i \in Lights : gp'.lightLayer[i].radius >= gp'.lightRadMin
             /\ gp'.dRadLights > 0]_vars
    /\ [][(ticks' # ticks /\ gp'.wheelRad < gp'.wheelRadMax) =>
             gp'.dRadLights = gp.dRadLights]_vars

\* the end of the switching tick: center radius 60.4, dRadLights = +0.1
C16_Witness ==
    /\ ticks = 240
    /\ gp.lightLayer[0].radius = 604
    /\ gp.dRadLights = 1

\* the absolute value of an integer
Abs(x) == IF x < 0 THEN -x ELSE x

\* C17: on_update changes only the sign, never the magnitude, of dx, dy and
\* dRadLights (|dx| = |dy| = 1, |dRadLights| = 0.1 in every reachable state),
\* and it never modifies dtilt, dRadWheel, lightRad, lightRadMin,
\* lightRadMax, wheelRadMax, the list of light colors or the number of
\* lights (always 7).
C17_FrameOfOnUpdate ==
    /\ [](Abs(gp.dx) = 10 /\ Abs(gp.dy) = 10 /\ Abs(gp.dRadLights) = 1)
    /\ [][ticks' # ticks =>
             /\ gp'.dtilt = gp.dtilt
             /\ gp'.dRadWheel = gp.dRadWheel
             /\ gp'.lightRad = gp.lightRad
             /\ gp'.lightRadMin = gp.lightRadMin
             /\ gp'.lightRadMax = gp.lightRadMax
             /\ gp'.wheelRadMax = gp.wheelRadMax
             /\ gp'.lightColors = gp.lightColors
             /\ DOMAIN gp'.lightLayer = DOMAIN gp.lightLayer
             /\ Cardinality(DOMAIN gp'.lightLayer) = 7
             /\ \A i \in DOMAIN gp.lightLayer :
                   gp'.lightLayer[i].color = gp.lightLayer[i].color]_vars

\* dx, dy and dRadLights have all changed sign
C17_Witness ==
    /\ Ticked
    /\ gp.dx = -10
    /\ gp.dy = -10
    /\ gp.dRadLights = -1

====
